---- MODULE Spec2Model ----
(***************************************************************************)
(* Session-aware level calculator and indicator engine of the Intraday     *)
(* Levels Dashboard (level_calculator.py, indicators.py, config.py).       *)
(*                                                                         *)
(* A DataFrame is a sequence of bars in strictly ascending timestamp       *)
(* order.  A timestamp is a calendar date (a small integer, 1 = oldest)    *)
(* and a time of day in minutes after midnight, market-local time.  A      *)
(* Python dict is a TLA+ function from key strings to values; every dict   *)
(* object lives in `heap`, so that aliasing and in-place mutation are      *)
(* visible.  Python's None is the value None below.                        *)
(***************************************************************************)
EXTENDS Integers, Sequences, FiniteSets, TLC

VARIABLES df, heap, call, closes, ohlcv

vars == <<df, heap, call, closes, ohlcv>>

(***************************************************************************)
(* Bounds of the model.                                                    *)
(***************************************************************************)
MaxBars == 3
MaxDate == 3
MaxObjects == 3
MaxCloses == 5
MaxClose == 3
MaxPeriod == 3
MaxRows == 2
MaxEwmRows == 4
MaxSeriesLen == 2
MaxUncheckedBars == 2
MaxCalls == 3
MaxVolume == 2

\* The (High, Low) of a bar: two overlapping ranges, so that the maximum High
\* and the minimum Low of a window come from different bars.
BarPrices == {<<2, 1>>, <<3, 2>>}

\* The (High, Low, Close) of a row of the indicator frame: a close at the
\* low, at the high and strictly between the two.
OhlcPrices == {<<2, 1, 1>>, <<3, 2, 3>>, <<3, 1, 2>>}

\* Representative times of day, in minutes after midnight: before the
\* pre-market, pre-market open, market open, end of the 5-minute range, end
\* of the 15-minute range, market close, after hours.
TimesOfDay == {180, 240, 570, 575, 585, 960, 1000}

(***************************************************************************)
(* config.py                                                               *)
(***************************************************************************)
PREMARKET_OPEN == 240
MARKET_OPEN == 570
MARKET_CLOSE == 960
ORB_5_END == 575
ORB_15_END == 585

\* Python's None (prices are positive, so -1 is outside every price).
None == -1

(***************************************************************************)
(* pandas / numpy primitives used by the level calculator                  *)
(***************************************************************************)
Max(S) == CHOOSE x \in S : \A y \in S : y <= x
Min(S) == CHOOSE x \in S : \A y \in S : x <= y

\* sorted(np.unique(df.index.date)): the distinct dates, ascending
RECURSIVE SortedSeq(_)
SortedSeq(S) == IF S = {} THEN <<>>
                ELSE LET m == Min(S) IN <<m>> \o SortedSeq(S \ {m})

IndexDates(d) == {d[i].date : i \in DOMAIN d}

\* df[df.index.date == day]
IsOnDate(d, day) == LET onDay(b) == b.date = day IN SelectSeq(d, onDay)

\* faulty variant: the end of the window is left out
between_time_open_end(d, start, end) ==
    LET inside(b) == start <= b.time /\ b.time < end IN SelectSeq(d, inside)

\* df.between_time(start, end): both ends inclusive
between_time(d, start, end) ==
    LET inside(b) == start <= b.time /\ b.time <= end IN SelectSeq(d, inside)

\* df['High'].max() and df['Low'].min() of a non-empty frame
HighMax(d) == Max({d[i].High : i \in DOMAIN d})
LowMin(d) == Min({d[i].Low : i \in DOMAIN d})

\* all_dates[:-1]
DropLast(s) == IF Len(s) = 0 THEN <<>> ELSE SubSeq(s, 1, Len(s) - 1)

(***************************************************************************)
(* level_calculator.find_previous_trading_day                              *)
(***************************************************************************)
\* faulty variant: the previous day's extrema over all its bars, not only those of
\* regular trading hours
RECURSIVE PrevDayScanWholeDay(_, _, _)
PrevDayScanWholeDay(d, cands, i) ==
    IF i = 0 THEN <<None, None>>
    ELSE LET df_prev_day == IsOnDate(d, cands[i])
         IN IF df_prev_day # <<>>
            THEN <<HighMax(df_prev_day), LowMin(df_prev_day)>>
            ELSE PrevDayScanWholeDay(d, cands, i - 1)

\* the loop over reversed(all_dates[:-1]), i counting down from the last
\* candidate; today_date is not read by the code
RECURSIVE PrevDayScan(_, _, _)
PrevDayScan(d, cands, i) ==
    IF i = 0 THEN <<None, None>>
    ELSE LET df_prev_day == IsOnDate(d, cands[i])
             df_prev_day_rth == between_time(df_prev_day, MARKET_OPEN, MARKET_CLOSE)
         IN IF df_prev_day_rth # <<>>
            THEN <<HighMax(df_prev_day_rth), LowMin(df_prev_day_rth)>>
            ELSE PrevDayScan(d, cands, i - 1)

PrevCandidates(all_dates, today_date) == DropLast(all_dates)

find_previous_trading_day(d, today_date) ==
    LET all_dates == SortedSeq(IndexDates(d))
        cands == PrevCandidates(all_dates, today_date)
    IN PrevDayScan(d, cands, Len(cands))

(***************************************************************************)
(* level_calculator.calculate_premarket_levels / calculate_orb_levels      *)
(***************************************************************************)
\* faulty variant: the filter on the target date is missing
WindowLevelsAnyDate(d, today_date, start, end) ==
    LET inWindow == between_time(d, start, end)
    IN IF inWindow # <<>> THEN <<HighMax(inWindow), LowMin(inWindow)>>
       ELSE <<None, None>>

WindowLevels(d, today_date, start, end) ==
    LET inWindow == between_time(d, start, end)
    IN IF inWindow # <<>>
       THEN LET today == IsOnDate(inWindow, today_date)
            IN IF today # <<>> THEN <<HighMax(today), LowMin(today)>>
               ELSE <<None, None>>
       ELSE <<None, None>>

\* faulty variant: the range is the five minutes that end at orb_end_time
calculate_orb_levels_last_five(d, today_date, orb_end_time) ==
    WindowLevels(d, today_date, orb_end_time - 5, orb_end_time)

calculate_premarket_levels(d, today_date) ==
    WindowLevels(d, today_date, PREMARKET_OPEN, MARKET_OPEN)

calculate_orb_levels(d, today_date, orb_end_time) ==
    WindowLevels(d, today_date, MARKET_OPEN, orb_end_time)

(***************************************************************************)
(* Python dict operations                                                  *)
(***************************************************************************)
EmptyDict == [k \in {} |-> None]

DictSet(m, key, v) == [k \in DOMAIN m \cup {key} |-> IF k = key THEN v ELSE m[k]]

\* dict.get(key): None when the key is missing
DictGet(m, key) == IF key \in DOMAIN m THEN m[key] ELSE None

\* dict.pop(key, None)
DictPop(m, key) == [k \in DOMAIN m \ {key} |-> m[k]]

(***************************************************************************)
(* level_calculator.calculate_levels                                       *)
(***************************************************************************)
\* faulty variant: the keys are written even when the level is None
PutPairAlways(m, hiKey, loKey, pair) ==
    DictSet(DictSet(m, hiKey, pair[1]), loKey, pair[2])

\* faulty variant: only the high of the pair is written
PutPairHighOnly(m, hiKey, loKey, pair) ==
    IF pair[1] # None THEN DictSet(m, hiKey, pair[1]) ELSE m

\* faulty variant: the high and the low are written under each other's name
PutPairSwapped(m, hiKey, loKey, pair) ==
    IF pair[1] # None THEN DictSet(DictSet(m, hiKey, pair[2]), loKey, pair[1])
    ELSE m

\* if high is not None: levels[hiKey] = high; levels[loKey] = low
PutPair(m, hiKey, loKey, pair) ==
    IF pair[1] # None THEN DictSet(DictSet(m, hiKey, pair[1]), loKey, pair[2])
    ELSE m

calculate_levels(d) ==
    LET all_dates == SortedSeq(IndexDates(d))
    IN IF Len(all_dates) = 0 THEN EmptyDict
       ELSE LET today_date == all_dates[Len(all_dates)]
                l1 == PutPair(EmptyDict, "PDH", "PDL",
                              find_previous_trading_day(d, today_date))
                l2 == PutPair(l1, "PM_High", "PM_Low",
                              calculate_premarket_levels(d, today_date))
                l3 == PutPair(l2, "ORB_5_High", "ORB_5_Low",
                              calculate_orb_levels(d, today_date, ORB_5_END))
                l4 == PutPair(l3, "ORB_15_High", "ORB_15_Low",
                              calculate_orb_levels(d, today_date, ORB_15_END))
            IN l4

(***************************************************************************)
(* level_calculator.merge_identical_levels                                 *)
(***************************************************************************)
\* faulty variant: the 15-minute high is left behind when the pair is combined
MergeHighKeep15(m) ==
    LET orb_5_high == DictGet(m, "ORB_5_High")
        orb_15_high == DictGet(m, "ORB_15_High")
    IN IF orb_5_high # None /\ orb_15_high # None /\ orb_5_high = orb_15_high
       THEN DictPop(DictSet(m, "ORB_5/15_High", orb_5_high), "ORB_5_High")
       ELSE m

\* lines 210-216: the High pair
MergeHigh(m) ==
    LET orb_5_high == DictGet(m, "ORB_5_High")
        orb_15_high == DictGet(m, "ORB_15_High")
    IN IF orb_5_high # None /\ orb_15_high # None /\ orb_5_high = orb_15_high
       THEN DictPop(DictPop(DictSet(m, "ORB_5/15_High", orb_5_high),
                            "ORB_5_High"), "ORB_15_High")
       ELSE m

\* faulty variant: the result is rebuilt from the opening-range names alone
MergeLowRangeOnly(m) ==
    LET orb_5_low == DictGet(m, "ORB_5_Low")
        orb_15_low == DictGet(m, "ORB_15_Low")
        r == IF orb_5_low # None /\ orb_15_low # None /\ orb_5_low = orb_15_low
             THEN DictPop(DictPop(DictSet(m, "ORB_5/15_Low", orb_5_low),
                                  "ORB_5_Low"), "ORB_15_Low")
             ELSE m
    IN [k \in DOMAIN r \cap {"ORB_5_High", "ORB_15_High", "ORB_5/15_High",
                              "ORB_5_Low", "ORB_15_Low", "ORB_5/15_Low"} |-> r[k]]

\* faulty variant: the combined low is stored under the name of the 15-minute high
MergeLowWrongKey(m) ==
    LET orb_5_low == DictGet(m, "ORB_5_Low")
        orb_15_low == DictGet(m, "ORB_15_Low")
    IN IF orb_5_low # None /\ orb_15_low # None /\ orb_5_low = orb_15_low
       THEN DictPop(DictPop(DictSet(m, "ORB_15_High", orb_5_low),
                            "ORB_5_Low"), "ORB_15_Low")
       ELSE m

\* lines 219-225: the Low pair
MergeLow(m) ==
    LET orb_5_low == DictGet(m, "ORB_5_Low")
        orb_15_low == DictGet(m, "ORB_15_Low")
    IN IF orb_5_low # None /\ orb_15_low # None /\ orb_5_low = orb_15_low
       THEN DictPop(DictPop(DictSet(m, "ORB_5/15_Low", orb_5_low),
                            "ORB_5_Low"), "ORB_15_Low")
       ELSE m

\* faulty variant: merged_levels = levels, the caller's own dict
CopyTargetAlias(h, levels) == levels

\* merged_levels = levels.copy(): the object the function then writes to is
\* a fresh dict, not the caller's
CopyTarget(h, levels) == Len(h) + 1

\* the whole function on the heap h, levels being a reference into h; the
\* result is the heap afterwards and the reference returned
merge_identical_levels(h, levels) ==
    LET merged_levels == CopyTarget(h, levels)
        h1 == IF merged_levels > Len(h) THEN Append(h, h[levels]) ELSE h
        h2 == [h1 EXCEPT ![merged_levels] = MergeLow(MergeHigh(h1[merged_levels]))]
    IN [heap |-> h2, ret |-> merged_levels]

(***************************************************************************)
(* Floating-point values of a pandas Series: a number, NaN ("missing") or  *)
(* an infinity.  Numbers are exact fractions n/d in lowest terms with      *)
(* d > 0; rounding is not modelled.  The sign of an infinity is dropped:   *)
(* the code only ever adds 1 to one and divides 100 by the sum.            *)
(***************************************************************************)
NaN == [t |-> "nan", n |-> 0, d |-> 1]
Inf == [t |-> "inf", n |-> 0, d |-> 1]

Abs(x) == IF x < 0 THEN -x ELSE x

RECURSIVE GCD(_, _)
GCD(a, b) == IF b = 0 THEN a ELSE GCD(b, a % b)

Num(n, d) ==
    LET sn == IF d < 0 THEN -n ELSE n
        sd == Abs(d)
        g == GCD(Abs(sn), sd)
    IN [t |-> "num", n |-> sn \div g, d |-> sd \div g]

IsNum(x) == x.t = "num"

\* faulty variant: a zero divisor gives NaN whatever the dividend
FDivZeroIsNaN(a, b) ==
    IF a.t = "nan" \/ b.t = "nan" THEN NaN
    ELSE IF a.t = "inf" THEN (IF b.t = "inf" THEN NaN ELSE Inf)
    ELSE IF b.t = "inf" THEN Num(0, 1)
    ELSE IF b.n = 0 THEN NaN
    ELSE Num(a.n * b.d, a.d * b.n)

\* a / b on floats: x/0 is an infinity for x # 0, 0/0 is NaN
FDiv(a, b) ==
    IF a.t = "nan" \/ b.t = "nan" THEN NaN
    ELSE IF a.t = "inf" THEN (IF b.t = "inf" THEN NaN ELSE Inf)
    ELSE IF b.t = "inf" THEN Num(0, 1)
    ELSE IF b.n = 0 THEN (IF a.n = 0 THEN NaN ELSE Inf)
    ELSE Num(a.n * b.d, a.d * b.n)

\* the least common multiple of two positive denominators
LCM(a, b) == (a \div GCD(a, b)) * b

FAdd(a, b) ==
    IF a.t = "nan" \/ b.t = "nan" THEN NaN
    ELSE IF a.t = "inf" \/ b.t = "inf" THEN Inf
    ELSE LET l == LCM(a.d, b.d)
         IN Num(a.n * (l \div a.d) + b.n * (l \div b.d), l)

FSub(a, b) ==
    IF a.t = "nan" \/ b.t = "nan" THEN NaN
    ELSE IF a.t = "inf" /\ b.t = "inf" THEN NaN
    ELSE IF a.t = "inf" \/ b.t = "inf" THEN Inf
    ELSE LET l == LCM(a.d, b.d)
         IN Num(a.n * (l \div a.d) - b.n * (l \div b.d), l)

\* a * b on floats: 0 times an infinity is NaN
FMul(a, b) ==
    IF a.t = "nan" \/ b.t = "nan" THEN NaN
    ELSE IF a.t = "inf" THEN (IF b.t = "num" /\ b.n = 0 THEN NaN ELSE Inf)
    ELSE IF b.t = "inf" THEN (IF a.n = 0 THEN NaN ELSE Inf)
    ELSE Num(a.n * b.n, a.d * b.d)

(***************************************************************************)
(* indicators.calculate_rsi                                                *)
(***************************************************************************)
\* df['Close'].diff(): NaN at the first row
Diff(c) == [i \in DOMAIN c |-> IF i = 1 THEN NaN ELSE Num(c[i] - c[i - 1], 1)]

\* delta.where(delta > 0, 0): a comparison with NaN is False, so the NaN of
\* the first row becomes 0
Gain(delta) ==
    [i \in DOMAIN delta |->
        IF IsNum(delta[i]) /\ delta[i].n > 0 THEN delta[i] ELSE Num(0, 1)]

\* faulty variant: the falls are kept with their sign
LossNotNegated(delta) ==
    [i \in DOMAIN delta |->
        IF IsNum(delta[i]) /\ delta[i].n < 0 THEN delta[i] ELSE Num(0, 1)]

\* -delta.where(delta < 0, 0)
Loss(delta) ==
    [i \in DOMAIN delta |->
        IF IsNum(delta[i]) /\ delta[i].n < 0 THEN Num(-delta[i].n, delta[i].d)
        ELSE Num(0, 1)]

RECURSIVE FSum(_, _, _)
FSum(s, from, to) ==
    IF from > to THEN Num(0, 1) ELSE FAdd(s[from], FSum(s, from + 1, to))

\* faulty variant: the mean of whatever rows the window holds so far
RollingMeanOfAvailable(s, period) ==
    [i \in DOMAIN s |->
        LET from == IF i < period THEN 1 ELSE i - period + 1
        IN FDiv(FSum(s, from, i), Num(i - from + 1, 1))]

\* s.rolling(window=period, min_periods=period).mean(): defined at row i
\* once the window holds `period` rows that are not NaN
RollingMean(s, period) ==
    [i \in DOMAIN s |->
        IF i < period THEN NaN
        ELSE IF \E j \in (i - period + 1) .. i : ~IsNum(s[j]) THEN NaN
        ELSE FDiv(FSum(s, i - period + 1, i), Num(period, 1))]

calculate_rsi(c, period) ==
    IF c = <<>> THEN <<>>
    ELSE LET delta == Diff(c)
             avg_gain == RollingMean(Gain(delta), period)
             avg_loss == RollingMean(Loss(delta), period)
             rs == [i \in DOMAIN c |-> FDiv(avg_gain[i], avg_loss[i])]
         IN [i \in DOMAIN c |->
                FSub(Num(100, 1), FDiv(Num(100, 1), FAdd(Num(1, 1), rs[i])))]

\* rolling(window=period) rejects a negative window with a ValueError; a
\* window of 0 is accepted and its mean is NaN at every row
rsi_raises(c, period) == c # <<>> /\ period < 0

(***************************************************************************)
(* indicators.calculate_vwap                                               *)
(***************************************************************************)
\* faulty variant: the running total restarts at every row
CumSumNoCarry(s) == s

\* s.cumsum()
CumSum(s) == [i \in DOMAIN s |-> FSum(s, 1, i)]

\* faulty variant: the typical price is the sum of the three prices halved
calculate_vwap_halved(d) ==
    IF d = <<>> THEN <<>>
    ELSE LET typical_price ==
                 [i \in DOMAIN d |->
                     FDiv(Num(d[i].High + d[i].Low + d[i].Close, 1), Num(2, 1))]
             cumulative_tp_volume ==
                 CumSum([i \in DOMAIN d |->
                            FMul(typical_price[i], Num(d[i].Volume, 1))])
             cumulative_volume ==
                 CumSum([i \in DOMAIN d |-> Num(d[i].Volume, 1)])
         IN [i \in DOMAIN d |->
                FDiv(cumulative_tp_volume[i], cumulative_volume[i])]

calculate_vwap(d) ==
    IF d = <<>> THEN <<>>
    ELSE LET typical_price ==
                 [i \in DOMAIN d |->
                     FDiv(Num(d[i].High + d[i].Low + d[i].Close, 1), Num(3, 1))]
             cumulative_tp_volume ==
                 CumSum([i \in DOMAIN d |->
                            FMul(typical_price[i], Num(d[i].Volume, 1))])
             cumulative_volume ==
                 CumSum([i \in DOMAIN d |-> Num(d[i].Volume, 1)])
         IN [i \in DOMAIN d |->
                FDiv(cumulative_tp_volume[i], cumulative_volume[i])]

(***************************************************************************)
(* indicators.calculate_macd, indicators.calculate_ema                     *)
(***************************************************************************)
\* faulty variant: the smoothing factor of a simple average of `span` rows
AlphaOfWindow(span) == Num(1, span)

\* ewm(span=span): alpha = 2 / (span + 1)
Alpha(span) == Num(2, span + 1)

\* ewm(span=span) rejects a span below 1 with a ValueError
EwmRaises(span) == span < 1

\* faulty variant: the first row is averaged with a zero that precedes it
EwmSeedFromZero(x, alpha) == FMul(alpha, x[1])

\* the average at the first row is the first observation
EwmSeed(x, alpha) == x[1]

\* Series.ewm(alpha=alpha, adjust=False).mean() on a series without NaN:
\* the average moves from the previous average to the new observation and
\* is left alone when the two are equal
RECURSIVE EwmMean(_, _)
EwmMean(x, alpha) ==
    IF x = <<>> THEN <<>>
    ELSE IF Len(x) = 1 THEN <<EwmSeed(x, alpha)>>
    ELSE LET before == EwmMean(DropLast(x), alpha)
             weighted == before[Len(before)]
             cur == x[Len(x)]
             old_wt == FSub(Num(1, 1), alpha)
             new_wt == alpha
         IN Append(before,
                   IF weighted = cur THEN weighted
                   ELSE FDiv(FAdd(FMul(old_wt, weighted), FMul(new_wt, cur)),
                             FAdd(old_wt, new_wt)))

\* df['Close'] as floats
CloseColumn(c) == [i \in DOMAIN c |-> Num(c[i], 1)]

\* the tuple (macd_line, signal_line, histogram)
calculate_macd(c, fast_period, slow_period, signal_period) ==
    IF c = <<>> THEN <<<<>>, <<>>, <<>>>>
    ELSE LET ema_fast == EwmMean(CloseColumn(c), Alpha(fast_period))
             ema_slow == EwmMean(CloseColumn(c), Alpha(slow_period))
             macd_line == [i \in DOMAIN c |-> FSub(ema_fast[i], ema_slow[i])]
             signal_line == EwmMean(macd_line, Alpha(signal_period))
             histogram == [i \in DOMAIN c |-> FSub(macd_line[i], signal_line[i])]
         IN <<macd_line, signal_line, histogram>>

macd_raises(c, fast_period, slow_period, signal_period) ==
    /\ c # <<>>
    /\ EwmRaises(fast_period) \/ EwmRaises(slow_period) \/ EwmRaises(signal_period)

calculate_ema(c, period) ==
    IF c = <<>> THEN <<>> ELSE EwmMean(CloseColumn(c), Alpha(period))

ema_raises(c, period) == c # <<>> /\ EwmRaises(period)

(***************************************************************************)
(* indicators.calculate_all_indicators                                     *)
(***************************************************************************)
\* the default parameters of calculate_rsi and calculate_macd
DEFAULT_PERIOD == 14
DEFAULT_FAST_PERIOD == 12
DEFAULT_SLOW_PERIOD == 26
DEFAULT_SIGNAL_PERIOD == 9

\* df['Close'] as the list of closes
Closes(d) == [i \in DOMAIN d |-> d[i].Close]

\* faulty variant: the histogram is stored over the MACD line
calculate_all_indicators_overwrite(d) ==
    LET macd == calculate_macd(Closes(d), DEFAULT_FAST_PERIOD,
                               DEFAULT_SLOW_PERIOD, DEFAULT_SIGNAL_PERIOD)
        i1 == DictSet(EmptyDict, "rsi", calculate_rsi(Closes(d), DEFAULT_PERIOD))
        i2 == DictSet(i1, "vwap", calculate_vwap(d))
        i3 == DictSet(i2, "macd", macd[1])
        i4 == DictSet(i3, "macd_signal", macd[2])
    IN DictSet(i4, "macd", macd[3])

calculate_all_indicators(d) ==
    LET macd == calculate_macd(Closes(d), DEFAULT_FAST_PERIOD,
                               DEFAULT_SLOW_PERIOD, DEFAULT_SIGNAL_PERIOD)
        i1 == DictSet(EmptyDict, "rsi", calculate_rsi(Closes(d), DEFAULT_PERIOD))
        i2 == DictSet(i1, "vwap", calculate_vwap(d))
        i3 == DictSet(i2, "macd", macd[1])
        i4 == DictSet(i3, "macd_signal", macd[2])
    IN DictSet(i4, "macd_histogram", macd[3])

(***************************************************************************)
(* indicators.get_indicator_signals                                        *)
(***************************************************************************)
\* x > k and x < k for a float x and an integer k: False on NaN; the only
\* infinity the indicators produce is positive
FGt(x, k) == x.t = "inf" \/ (IsNum(x) /\ x.n > k * x.d)
FLt(x, k) == IsNum(x) /\ x.n < k * x.d

\* series.iloc[-1]
Last(series) == series[Len(series)]

\* 'key' in indicators and not indicators['key'].empty and
\* not pd.isna(indicators['key'].iloc[-1])
HasCurrent(indicators, key) ==
    /\ key \in DOMAIN indicators
    /\ indicators[key] # <<>>
    /\ Last(indicators[key]) # NaN

\* faulty variant: the thresholds themselves count as overbought/oversold
RsiSignalsInclusive(signals, indicators) ==
    IF HasCurrent(indicators, "rsi")
    THEN LET current_rsi == Last(indicators["rsi"])
             label == IF ~FLt(current_rsi, 70) THEN "Overbought"
                      ELSE IF ~FGt(current_rsi, 30) THEN "Oversold"
                      ELSE "Neutral"
         IN DictSet(DictSet(signals, "rsi_signal", label), "rsi_value", current_rsi)
    ELSE signals

RsiSignals(signals, indicators) ==
    IF HasCurrent(indicators, "rsi")
    THEN LET current_rsi == Last(indicators["rsi"])
             label == IF FGt(current_rsi, 70) THEN "Overbought"
                      ELSE IF FLt(current_rsi, 30) THEN "Oversold"
                      ELSE "Neutral"
         IN DictSet(DictSet(signals, "rsi_signal", label), "rsi_value", current_rsi)
    ELSE signals

\* faulty variant: a histogram of 0 counts as bullish
MacdSignalsInclusive(signals, indicators) ==
    IF HasCurrent(indicators, "macd_histogram")
    THEN LET current_hist == Last(indicators["macd_histogram"])
             label == IF ~FLt(current_hist, 0) THEN "Bullish"
                      ELSE "Bearish"
         IN DictSet(DictSet(signals, "macd_signal", label),
                    "macd_histogram_value", current_hist)
    ELSE signals

MacdSignals(signals, indicators) ==
    IF HasCurrent(indicators, "macd_histogram")
    THEN LET current_hist == Last(indicators["macd_histogram"])
             label == IF FGt(current_hist, 0) THEN "Bullish"
                      ELSE IF FLt(current_hist, 0) THEN "Bearish"
                      ELSE "Neutral"
         IN DictSet(DictSet(signals, "macd_signal", label),
                    "macd_histogram_value", current_hist)
    ELSE signals

\* faulty variant: a missing VWAP is reported as a value
VwapSignalsKeepMissing(signals, indicators) ==
    IF "vwap" \in DOMAIN indicators /\ indicators["vwap"] # <<>>
    THEN DictSet(signals, "vwap_value", Last(indicators["vwap"]))
    ELSE signals

VwapSignals(signals, indicators) ==
    IF HasCurrent(indicators, "vwap")
    THEN DictSet(signals, "vwap_value", Last(indicators["vwap"]))
    ELSE signals

get_indicator_signals(indicators) ==
    IF DOMAIN indicators = {} THEN EmptyDict
    ELSE VwapSignals(MacdSignals(RsiSignals(EmptyDict, indicators), indicators),
                     indicators)

(***************************************************************************)
(* State machine: a caller builds an input, then calls the functions.      *)
(***************************************************************************)
(***************************************************************************)
(* dashboard.py, the earlier single-file variant: its own market times,    *)
(* its own calculate_levels and the level merging inside plot_chart        *)
(***************************************************************************)
dashboard_PREMARKET_OPEN == 240
dashboard_MARKET_OPEN == 570
dashboard_ORB_5_END == 575
dashboard_ORB_15_END == 585
dashboard_MARKET_CLOSE == 960

\* faulty variant: the loop has no break, so every earlier trading day
\* overwrites PDH and PDL and the earliest one wins
RECURSIVE dashboard_prev_day_loop_no_break(_, _, _, _)
dashboard_prev_day_loop_no_break(levels, d, cands, i) ==
    IF i = 0 THEN levels
    ELSE LET df_prev_day == IsOnDate(d, cands[i])
             df_prev_day_rth == between_time(df_prev_day, dashboard_MARKET_OPEN,
                                             dashboard_MARKET_CLOSE)
         IN IF df_prev_day_rth # <<>>
            THEN dashboard_prev_day_loop_no_break(
                     DictSet(DictSet(levels, "PDH", HighMax(df_prev_day_rth)),
                             "PDL", LowMin(df_prev_day_rth)), d, cands, i - 1)
            ELSE dashboard_prev_day_loop_no_break(levels, d, cands, i - 1)

\* for prev_date in reversed(all_dates[:-1]): the first date with bars in
\* regular trading hours sets PDH and PDL and ends the loop
RECURSIVE dashboard_prev_day_loop(_, _, _, _)
dashboard_prev_day_loop(levels, d, cands, i) ==
    IF i = 0 THEN levels
    ELSE LET df_prev_day == IsOnDate(d, cands[i])
             df_prev_day_rth == between_time(df_prev_day, dashboard_MARKET_OPEN,
                                             dashboard_MARKET_CLOSE)
         IN IF df_prev_day_rth # <<>>
            THEN DictSet(DictSet(levels, "PDH", HighMax(df_prev_day_rth)),
                         "PDL", LowMin(df_prev_day_rth))
            ELSE dashboard_prev_day_loop(levels, d, cands, i - 1)

\* one block of "Calculations for TODAY_DATE": the bars of the time range,
\* then those of today_date; both keys are set or neither
dashboard_today_block(levels, d, today_date, start, end, hiKey, loKey) ==
    LET inRange == between_time(d, start, end)
    IN IF inRange # <<>>
       THEN LET today == IsOnDate(inRange, today_date)
            IN IF today # <<>>
               THEN DictSet(DictSet(levels, hiKey, HighMax(today)),
                            loKey, LowMin(today))
               ELSE levels
       ELSE levels

dashboard_calculate_levels(d) ==
    LET all_dates == SortedSeq(IndexDates(d))
    IN IF Len(all_dates) = 0 THEN EmptyDict
       ELSE LET today_date == all_dates[Len(all_dates)]
                cands == DropLast(all_dates)
                l1 == dashboard_prev_day_loop(EmptyDict, d, cands, Len(cands))
                l2 == dashboard_today_block(l1, d, today_date,
                          dashboard_PREMARKET_OPEN, dashboard_MARKET_OPEN,
                          "PM_High", "PM_Low")
                l3 == dashboard_today_block(l2, d, today_date,
                          dashboard_MARKET_OPEN, dashboard_ORB_5_END,
                          "ORB_5_High", "ORB_5_Low")
                l4 == dashboard_today_block(l3, d, today_date,
                          dashboard_MARKET_OPEN, dashboard_ORB_15_END,
                          "ORB_15_High", "ORB_15_Low")
            IN l4

\* if key in plot_levels: del plot_levels[key]
DictDelIfPresent(m, key) ==
    IF key \in DOMAIN m THEN [k \in DOMAIN m \ {key} |-> m[k]] ELSE m

\* faulty variant: the combined name is added and the two own names are kept
plot_chart_merge_keep_own(m, k5, k15, kBoth) ==
    LET orb_5 == DictGet(m, k5)
        orb_15 == DictGet(m, k15)
    IN IF orb_5 # None /\ orb_15 # None /\ orb_5 = orb_15
       THEN DictSet(m, kBoth, orb_5)
       ELSE m

\* plot_chart, "3. Add Level Lines": the same statements for the High pair
\* and for the Low pair
plot_chart_merge(m, k5, k15, kBoth) ==
    LET orb_5 == DictGet(m, k5)
        orb_15 == DictGet(m, k15)
    IN IF orb_5 # None /\ orb_15 # None /\ orb_5 = orb_15
       THEN DictDelIfPresent(DictDelIfPresent(DictSet(m, kBoth, orb_5), k5), k15)
       ELSE m

\* the level map plot_chart returns (the figure is not modelled), on the
\* heap h with levels a reference into h: a new empty dict for an empty
\* frame, else a copy of levels with the identical pairs combined
plot_chart(h, d, levels) ==
    IF d = <<>> THEN [heap |-> Append(h, EmptyDict), ret |-> Len(h) + 1]
    ELSE LET plot_levels == h[levels]
             highs == plot_chart_merge(plot_levels, "ORB_5_High", "ORB_15_High",
                                       "ORB_5/15_High")
             lows == plot_chart_merge(highs, "ORB_5_Low", "ORB_15_Low",
                                      "ORB_5/15_Low")
         IN [heap |-> Append(h, lows), ret |-> Len(h) + 1]

\* the last call: the function, its arguments and what it returned (a tuple:
\* a pair of levels, a series, or the reference of the dict returned)
NoCall == [fn |-> "none", arg |-> <<>>, ret |-> <<>>]

Init ==
    /\ df = <<>>
    /\ heap = <<>>
    /\ call = NoCall
    /\ closes = <<>>
    /\ ohlcv = <<>>

\* The data fetcher delivers one more bar, later than every bar so far.
Later(b, d) ==
    IF d = <<>> THEN TRUE
    ELSE IF d[Len(d)].date = b.date THEN d[Len(d)].time < b.time
    ELSE d[Len(d)].date < b.date

AddBar(date, time, high, low) ==
    /\ call.fn = "none"
    /\ Len(df) < MaxBars
    /\ LET b == [date |-> date, time |-> time, High |-> high, Low |-> low]
       IN /\ Later(b, df)
          /\ df' = Append(df, b)
    /\ UNCHANGED <<heap, call, closes, ohlcv>>

Call_find_previous_trading_day(today_date) ==
    /\ call.fn = "none"
    /\ call' = [fn |-> "find_previous_trading_day", arg |-> <<today_date>>,
                ret |-> find_previous_trading_day(df, today_date)]
    /\ UNCHANGED <<df, heap, closes, ohlcv>>

Call_calculate_premarket_levels(today_date) ==
    /\ call.fn = "none"
    /\ call' = [fn |-> "calculate_premarket_levels", arg |-> <<today_date>>,
                ret |-> calculate_premarket_levels(df, today_date)]
    /\ UNCHANGED <<df, heap, closes, ohlcv>>

Call_calculate_orb_levels(today_date, orb_end_time) ==
    /\ call.fn = "none"
    /\ call' = [fn |-> "calculate_orb_levels", arg |-> <<today_date, orb_end_time>>,
                ret |-> calculate_orb_levels(df, today_date, orb_end_time)]
    /\ UNCHANGED <<df, heap, closes, ohlcv>>

Call_calculate_levels ==
    /\ call.fn = "none"
    /\ heap' = Append(heap, calculate_levels(df))
    /\ call' = [fn |-> "calculate_levels", arg |-> <<>>, ret |-> <<Len(heap) + 1>>]
    /\ UNCHANGED <<df, closes, ohlcv>>

Call_merge_identical_levels(levels) ==
    /\ levels \in DOMAIN heap
    /\ Len(heap) < MaxObjects
    /\ LET r == merge_identical_levels(heap, levels)
       IN /\ heap' = r.heap
          /\ call' = [fn |-> "merge_identical_levels", arg |-> <<levels>>,
                      ret |-> <<r.ret>>]
    /\ UNCHANGED <<df, closes, ohlcv>>

\* A caller fills in a LevelSet of its own (heap[1]) before any call.
LevelNames == {"PDH", "ORB_5_High", "ORB_15_High", "ORB_5_Low", "ORB_15_Low",
               "ORB_5/15_High", "ORB_5/15_Low"}

SetLevel(name, price) ==
    /\ call.fn = "none"
    /\ Len(heap) = 1
    /\ name \notin DOMAIN heap[1]
    /\ heap' = [heap EXCEPT ![1] = DictSet(heap[1], name, price)]
    /\ UNCHANGED <<df, call, closes, ohlcv>>

Dates == 1 .. MaxDate
Prices == 1 .. 3

AddAnyBar ==
    \E date \in Dates, time \in TimesOfDay, hl \in BarPrices :
        AddBar(date, time, hl[1], hl[2])

\* find_previous_trading_day called on its own, with any today
NextPrev ==
    \/ AddAnyBar
    \/ \E today_date \in 1 .. MaxDate + 1 : Call_find_previous_trading_day(today_date)

SpecPrev == Init /\ [][NextPrev]_vars

\* the window extractors called on their own, with any target date
NextWindow ==
    \/ AddAnyBar
    \/ \E today_date \in Dates : Call_calculate_premarket_levels(today_date)
    \/ \E today_date \in Dates, orb_end_time \in {ORB_5_END, ORB_15_END} :
          Call_calculate_orb_levels(today_date, orb_end_time)

SpecWindow == Init /\ [][NextWindow]_vars

\* the dashboard's path: calculate_levels, then merge_identical_levels
NextLevels ==
    \/ AddAnyBar
    \/ Call_calculate_levels
    \/ call.fn = "calculate_levels" /\ Call_merge_identical_levels(call.ret[1])

SpecLevels == Init /\ [][NextLevels]_vars

\* merge_identical_levels on any LevelSet
InitMerge ==
    /\ df = <<>>
    /\ heap = <<EmptyDict>>
    /\ call = NoCall
    /\ closes = <<>>
    /\ ohlcv = <<>>

NextMerge ==
    \/ \E name \in LevelNames, price \in Prices : SetLevel(name, price)
    \/ \E levels \in DOMAIN heap : Call_merge_identical_levels(levels)

SpecMerge == InitMerge /\ [][NextMerge]_vars

\* The session's frame grows by one bar; only its Close is read by the RSI.
AddClose(c) ==
    /\ call.fn = "none"
    /\ Len(closes) < MaxCloses
    /\ closes' = Append(closes, c)
    /\ UNCHANGED <<df, heap, call, ohlcv>>

\* a call that raises returns nothing: `raised` tells the two apart
Call_calculate_rsi(period) ==
    /\ call.fn = "none"
    /\ LET raises == rsi_raises(closes, period)
       IN call' = [fn |-> "calculate_rsi", arg |-> <<period>>,
                   ret |-> IF raises THEN <<>> ELSE calculate_rsi(closes, period),
                   raised |-> raises]
    /\ UNCHANGED <<df, heap, closes, ohlcv>>

NextRSI ==
    \/ \E c \in 1 .. MaxClose : AddClose(c)
    \/ \E period \in 1 .. MaxPeriod : Call_calculate_rsi(period)

SpecRSI == Init /\ [][NextRSI]_vars

\* The session's frame grows by one row with prices and a volume.
AddRow(high, low, close, volume) ==
    /\ call.fn = "none"
    /\ Len(ohlcv) < MaxRows
    /\ ohlcv' = Append(ohlcv, [High |-> high, Low |-> low, Close |-> close,
                               Volume |-> volume])
    /\ UNCHANGED <<df, heap, call, closes>>

AddAnyRow ==
    \E hlc \in OhlcPrices, volume \in 0 .. MaxVolume :
        AddRow(hlc[1], hlc[2], hlc[3], volume)

Call_calculate_vwap ==
    /\ call.fn = "none"
    /\ call' = [fn |-> "calculate_vwap", arg |-> <<>>,
                ret |-> calculate_vwap(ohlcv)]
    /\ UNCHANGED <<df, heap, closes, ohlcv>>

NextVwap ==
    \/ AddAnyRow
    \/ Call_calculate_vwap

SpecVwap == Init /\ [][NextVwap]_vars

Call_calculate_macd(fast_period, slow_period, signal_period) ==
    /\ call.fn = "none"
    /\ LET raises == macd_raises(closes, fast_period, slow_period, signal_period)
       IN call' = [fn |-> "calculate_macd",
                   arg |-> <<fast_period, slow_period, signal_period>>,
                   ret |-> IF raises THEN <<>>
                           ELSE calculate_macd(closes, fast_period, slow_period,
                                               signal_period),
                   raised |-> raises]
    /\ UNCHANGED <<df, heap, closes, ohlcv>>

Call_calculate_ema(period) ==
    /\ call.fn = "none"
    /\ LET raises == ema_raises(closes, period)
       IN call' = [fn |-> "calculate_ema", arg |-> <<period>>,
                   ret |-> IF raises THEN <<>> ELSE calculate_ema(closes, period),
                   raised |-> raises]
    /\ UNCHANGED <<df, heap, closes, ohlcv>>

Periods == 1 .. MaxPeriod

\* the exponential averages are called on frames of up to MaxEwmRows rows
NextMACD ==
    \/ \E c \in 1 .. MaxClose : Len(closes) < MaxEwmRows /\ AddClose(c)
    \/ \E fast_period \in Periods, slow_period \in Periods, signal_period \in Periods :
          Call_calculate_macd(fast_period, slow_period, signal_period)
    \/ \E period \in Periods : Call_calculate_ema(period)

SpecMACD == Init /\ [][NextMACD]_vars

\* The dashboard's indicator path: calculate_all_indicators on the frame, then
\* get_indicator_signals on its result.  A caller may also hand
\* get_indicator_signals a map of its own (heap[1]), filled key by key.
Call_calculate_all_indicators ==
    /\ call.fn = "none"
    /\ heap = <<>>
    /\ heap' = <<calculate_all_indicators(ohlcv)>>
    /\ call' = [fn |-> "calculate_all_indicators", arg |-> <<>>, ret |-> <<1>>]
    /\ UNCHANGED <<df, closes, ohlcv>>

NewIndicators ==
    /\ call.fn = "none"
    /\ heap = <<>>
    /\ ohlcv = <<>>
    /\ heap' = <<EmptyDict>>
    /\ UNCHANGED <<df, call, closes, ohlcv>>

SetIndicator(key, series) ==
    /\ call.fn = "none"
    /\ Len(heap) = 1
    /\ key \notin DOMAIN heap[1]
    /\ heap' = [heap EXCEPT ![1] = DictSet(heap[1], key, series)]
    /\ UNCHANGED <<df, call, closes, ohlcv>>

Call_get_indicator_signals(indicators) ==
    /\ call.fn \in {"none", "calculate_all_indicators"}
    /\ indicators \in DOMAIN heap
    /\ heap' = Append(heap, get_indicator_signals(heap[indicators]))
    /\ call' = [fn |-> "get_indicator_signals", arg |-> <<indicators>>,
                ret |-> <<Len(heap) + 1>>]
    /\ UNCHANGED <<df, closes, ohlcv>>

\* the series a caller may store: every list of up to MaxSeriesLen values
SeriesOver(values) == UNION {[1 .. n -> values] : n \in 0 .. MaxSeriesLen}

\* RSI values on both sides of and on the two thresholds; histogram values on
\* both sides of and on 0; a VWAP
SampleValues ==
    [rsi |-> {NaN, Num(29, 1), Num(30, 1), Num(70, 1), Num(71, 1)},
     macd_histogram |-> {NaN, Num(-1, 2), Num(0, 1), Num(1, 2)},
     vwap |-> {NaN, Num(9, 1)}]

NextIndicators ==
    \/ heap = <<>> /\ AddAnyRow
    \/ Call_calculate_all_indicators
    \/ NewIndicators
    \/ \E key \in DOMAIN SampleValues :
          \E series \in SeriesOver(SampleValues[key]) : SetIndicator(key, series)
    \/ Call_get_indicator_signals(1)

SpecIndicators == Init /\ [][NextIndicators]_vars

\* A caller hands the level functions a frame whose bars were never put in
\* order: a bar is appended whatever its timestamp.
AddBarUnchecked(date, time, high, low) ==
    /\ call.fn = "none"
    /\ Len(df) < MaxUncheckedBars
    /\ df' = Append(df, [date |-> date, time |-> time, High |-> high, Low |-> low])
    /\ UNCHANGED <<heap, call, closes, ohlcv>>

NextUnchecked ==
    \/ \E date \in Dates, time \in TimesOfDay, hl \in BarPrices :
          AddBarUnchecked(date, time, hl[1], hl[2])
    \/ \E today_date \in Dates : Call_find_previous_trading_day(today_date)
    \/ \E today_date \in Dates : Call_calculate_premarket_levels(today_date)
    \/ \E today_date \in Dates, orb_end_time \in {ORB_5_END, ORB_15_END} :
          Call_calculate_orb_levels(today_date, orb_end_time)
    \/ Call_calculate_levels

SpecUnchecked == Init /\ [][NextUnchecked]_vars

\* the indicator functions called with a period that is 0 or negative
BadPeriods == {-1, 0}

NextBadPeriod ==
    \/ \E c \in 1 .. MaxClose : Len(closes) < MaxEwmRows /\ AddClose(c)
    \/ \E period \in BadPeriods : Call_calculate_rsi(period)
    \/ \E period \in BadPeriods : Call_calculate_ema(period)
    \/ \E fast_period \in BadPeriods \cup {1}, slow_period \in BadPeriods \cup {1},
          signal_period \in BadPeriods \cup {1} :
          /\ {fast_period, slow_period, signal_period} # {1}
          /\ Call_calculate_macd(fast_period, slow_period, signal_period)

SpecBadPeriod == Init /\ [][NextBadPeriod]_vars

\* Every function called where data is absent: no bars, a close series no
\* longer than the largest period, a map of empty or missing series.
AbsentSeries == SeriesOver({NaN, Num(50, 1)})

NextAbsent ==
    \/ \E c \in 1 .. MaxClose :
          heap = <<>> /\ Len(closes) < MaxPeriod /\ AddClose(c)
    \/ \E period \in Periods : Call_calculate_rsi(period)
    \/ \E fast_period \in Periods, slow_period \in Periods, signal_period \in Periods :
          Call_calculate_macd(fast_period, slow_period, signal_period)
    \/ Call_calculate_vwap
    \/ Call_calculate_levels
    \/ closes = <<>> /\ NewIndicators
    \/ \E key \in DOMAIN SampleValues :
          \E series \in AbsentSeries : SetIndicator(key, series)
    \/ call.fn = "none" /\ Call_get_indicator_signals(1)

SpecAbsent == Init /\ [][NextAbsent]_vars

\* A session on one frame: the functions are called again and again, in any
\* order, and every call is kept with the reference it returned (call.log).
CallLog == IF "log" \in DOMAIN call THEN call.log ELSE <<>>

\* the dicts returned so far by the functions named
ReturnedBy(fns) == {CallLog[i].ret[1] : i \in {j \in DOMAIN CallLog : CallLog[j].fn \in fns}}

Invoke(fn, arg, ret, heapAfter) ==
    /\ Len(CallLog) < MaxCalls
    /\ heap' = heapAfter
    /\ call' = [fn |-> fn, arg |-> arg, ret |-> ret,
                log |-> Append(CallLog, [fn |-> fn, arg |-> arg, ret |-> ret])]
    /\ UNCHANGED <<df, closes, ohlcv>>

Session_calculate_levels ==
    Invoke("calculate_levels", <<>>, <<Len(heap) + 1>>,
           Append(heap, calculate_levels(df)))

Session_merge_identical_levels(levels) ==
    LET r == merge_identical_levels(heap, levels)
    IN Invoke("merge_identical_levels", <<levels>>, <<r.ret>>, r.heap)

Session_calculate_all_indicators ==
    Invoke("calculate_all_indicators", <<>>, <<Len(heap) + 1>>,
           Append(heap, calculate_all_indicators(ohlcv)))

Session_get_indicator_signals(indicators) ==
    Invoke("get_indicator_signals", <<indicators>>, <<Len(heap) + 1>>,
           Append(heap, get_indicator_signals(heap[indicators])))

\* the frames of a session: no bar or one bar, no row or one row
SessionFrames ==
    {<<>>} \cup {<<[date |-> date, time |-> time, High |-> hl[1], Low |-> hl[2]]>> :
                    date \in Dates, time \in TimesOfDay, hl \in BarPrices}

SessionRows ==
    {<<>>} \cup {<<[High |-> hlc[1], Low |-> hlc[2], Close |-> hlc[3],
                     Volume |-> volume]>> :
                    hlc \in OhlcPrices, volume \in 0 .. MaxVolume}

InitSession ==
    /\ \/ df \in SessionFrames /\ ohlcv = <<>>
       \/ df = <<>> /\ ohlcv \in SessionRows
    /\ closes = Closes(ohlcv)
    /\ heap = <<>>
    /\ call = NoCall

NextSession ==
    \/ Session_calculate_levels
    \/ \E levels \in ReturnedBy({"calculate_levels", "merge_identical_levels"}) :
          Session_merge_identical_levels(levels)
    \/ Session_calculate_all_indicators
    \/ \E indicators \in ReturnedBy({"calculate_all_indicators"}) :
          Session_get_indicator_signals(indicators)

SpecSession == InitSession /\ [][NextSession]_vars

\* the earlier dashboard's level calculation on any frame
Call_dashboard_calculate_levels ==
    /\ call.fn = "none"
    /\ heap' = Append(heap, dashboard_calculate_levels(df))
    /\ call' = [fn |-> "dashboard.calculate_levels", arg |-> <<>>,
                ret |-> <<Len(heap) + 1>>]
    /\ UNCHANGED <<df, closes, ohlcv>>

NextDashboard ==
    \/ AddAnyBar
    \/ Call_dashboard_calculate_levels

SpecDashboard == Init /\ [][NextDashboard]_vars

\* plot_chart on any LevelSet (heap[1]) and a chart frame of no bar or of
\* today's opening bar; of the frame, the level map reads only whether it is
\* empty
AddChartBar ==
    /\ df = <<>>
    /\ \E hl \in BarPrices : AddBar(1, MARKET_OPEN, hl[1], hl[2])

Call_plot_chart(levels) ==
    /\ levels \in DOMAIN heap
    /\ Len(heap) < MaxObjects
    /\ LET r == plot_chart(heap, df, levels)
       IN /\ heap' = r.heap
          /\ call' = [fn |-> "plot_chart", arg |-> <<levels>>, ret |-> <<r.ret>>]
    /\ UNCHANGED <<df, closes, ohlcv>>

NextPlot ==
    \/ \E name \in LevelNames, price \in Prices : SetLevel(name, price)
    \/ AddChartBar
    \/ \E levels \in DOMAIN heap : Call_plot_chart(levels)

SpecPlot == InitMerge /\ [][NextPlot]_vars

Next == NextPrev \/ NextWindow \/ NextLevels \/ NextMerge \/ NextRSI
           \/ NextVwap \/ NextMACD \/ NextIndicators \/ NextUnchecked
           \/ NextBadPeriod \/ NextAbsent \/ NextSession
           \/ NextDashboard \/ NextPlot

Spec == Init /\ [][Next]_vars

(***************************************************************************)
(* What the specification says the level functions return, stated on the   *)
(* set of bars rather than by the code's filters.                          *)
(***************************************************************************)
BarsIn(d, day, start, end) ==
    {i \in DOMAIN d : d[i].date = day /\ start <= d[i].time /\ d[i].time <= end}

Extrema(d, S) ==
    IF S = {} THEN <<None, None>>
    ELSE <<Max({d[i].High : i \in S}), Min({d[i].Low : i \in S})>>

ExpectedWindow(d, day, start, end) == Extrema(d, BarsIn(d, day, start, end))

\* the dates strictly before today that have a regular-hours bar
TradingDaysBefore(d, today) ==
    {day \in IndexDates(d) :
        day < today /\ BarsIn(d, day, MARKET_OPEN, MARKET_CLOSE) # {}}

ExpectedPrev(d, today) ==
    IF TradingDaysBefore(d, today) = {} THEN <<None, None>>
    ELSE ExpectedWindow(d, Max(TradingDaysBefore(d, today)), MARKET_OPEN, MARKET_CLOSE)

LatestDate(d) == Max(IndexDates(d))

\* the pair of keys of a LevelSet m agrees with the (high, low) pair
PairIs(m, hiKey, loKey, pair) ==
    IF pair[1] = None THEN hiKey \notin DOMAIN m /\ loKey \notin DOMAIN m
    ELSE /\ hiKey \in DOMAIN m /\ m[hiKey] = pair[1]
         /\ loKey \in DOMAIN m /\ m[loKey] = pair[2]

(***************************************************************************)
(* C1.  find_previous_trading_day(series, today) returns, for every series *)
(* and every today, in the series or not, the (max High, min Low) of the   *)
(* regular-hours bars of the greatest date strictly before today that has  *)
(* a regular-hours bar, and (None, None) when there is no such date.       *)
(* The code drops the latest date of the series instead of the dates from  *)
(* today on, so this fails when today is not the latest date.              *)
(***************************************************************************)
C1_PreviousTradingDay ==
    call.fn = "find_previous_trading_day" =>
        call.ret = ExpectedPrev(df, call.arg[1])

(***************************************************************************)
(* C2.  calculate_levels takes today to be the latest date of the series:  *)
(* PDH/PDL are the regular-hours extrema of the most recent earlier date   *)
(* with a regular-hours bar (absent when there is none), whatever the      *)
(* pre-market, after-hours and older bars are, and the pre-market and      *)
(* opening-range levels are those of the latest date.                      *)
(***************************************************************************)
C2_TodayIsLatestDate ==
    (call.fn = "calculate_levels" /\ df # <<>>) =>
        LET L == heap[call.ret[1]]
            today == LatestDate(df)
        IN /\ PairIs(L, "PDH", "PDL", ExpectedPrev(df, today))
           /\ PairIs(L, "PM_High", "PM_Low",
                     ExpectedWindow(df, today, PREMARKET_OPEN, MARKET_OPEN))
           /\ PairIs(L, "ORB_5_High", "ORB_5_Low",
                     ExpectedWindow(df, today, MARKET_OPEN, ORB_5_END))
           /\ PairIs(L, "ORB_15_High", "ORB_15_Low",
                     ExpectedWindow(df, today, MARKET_OPEN, ORB_15_END))

\* PDH comes from a date two or more sessions back: the date in between has
\* bars, none of them in regular hours, and the previous day itself has a
\* bar outside regular hours or an older date has a higher High
C2_Witness ==
    /\ call.fn = "calculate_levels"
    /\ df # <<>>
    /\ "PDH" \in DOMAIN heap[call.ret[1]]
    /\ \E day \in IndexDates(df) :
          /\ day < LatestDate(df)
          /\ day > Max(TradingDaysBefore(df, LatestDate(df)))
    /\ heap[call.ret[1]]["PDH"] < Max({df[i].High : i \in DOMAIN df})

(***************************************************************************)
(* C3.  A window extractor (pre-market, ORB-5, ORB-15) called for a target *)
(* date returns (max High, min Low) over exactly the bars of that date     *)
(* whose time of day is inside the window, and (None, None) when there is  *)
(* no such bar; bars of other dates never count.  Highs 101.0, 101.2,      *)
(* 100.9 and lows 100.5, 100.7, 100.6 between 09:30 and 09:35 give the     *)
(* ORB-5 pair (101.2, 100.5) (prices in tenths).                           *)
(***************************************************************************)
ExampleOpeningBars ==
    << [date |-> 1, time |-> 570, High |-> 1010, Low |-> 1005],
       [date |-> 1, time |-> 572, High |-> 1012, Low |-> 1007],
       [date |-> 1, time |-> 575, High |-> 1009, Low |-> 1006] >>

C3_WindowExtraction ==
    /\ call.fn = "calculate_premarket_levels" =>
          call.ret = ExpectedWindow(df, call.arg[1], PREMARKET_OPEN, MARKET_OPEN)
    /\ call.fn = "calculate_orb_levels" =>
          call.ret = ExpectedWindow(df, call.arg[1], MARKET_OPEN, call.arg[2])
    /\ call.fn \in {"calculate_premarket_levels", "calculate_orb_levels"} =>
          calculate_orb_levels(ExampleOpeningBars, 1, ORB_5_END) = <<1012, 1005>>

\* the 5-minute range of the target date is found while another date has a
\* bar inside the same window with a higher High
C3_Witness ==
    /\ call.fn = "calculate_orb_levels"
    /\ call.arg[2] = ORB_5_END
    /\ call.ret[1] # None
    /\ call.ret[1] > call.ret[2]
    /\ \E i \in DOMAIN df :
          /\ df[i].date # call.arg[1]
          /\ MARKET_OPEN <= df[i].time /\ df[i].time <= ORB_5_END
          /\ df[i].High > call.ret[1]

(***************************************************************************)
(* C4.  Absence propagation: when no date before today has a regular-hours *)
(* bar, find_previous_trading_day returns (None, None) and                 *)
(* calculate_levels omits PDH and PDL; a window with no bar of the target  *)
(* date yields (None, None) and its keys are omitted.                      *)
(* The first part fails for find_previous_trading_day called with a today  *)
(* that is not the latest date of the series (see C1).                     *)
(***************************************************************************)
C4_AbsencePropagation ==
    /\ (call.fn = "find_previous_trading_day"
        /\ TradingDaysBefore(df, call.arg[1]) = {}) =>
          call.ret = <<None, None>>
    /\ (call.fn = "calculate_levels" /\ df # <<>>
        /\ TradingDaysBefore(df, LatestDate(df)) = {}) =>
          /\ "PDH" \notin DOMAIN heap[call.ret[1]]
          /\ "PDL" \notin DOMAIN heap[call.ret[1]]
    /\ (call.fn = "calculate_premarket_levels"
        /\ BarsIn(df, call.arg[1], PREMARKET_OPEN, MARKET_OPEN) = {}) =>
          call.ret = <<None, None>>
    /\ (call.fn = "calculate_orb_levels"
        /\ BarsIn(df, call.arg[1], MARKET_OPEN, call.arg[2]) = {}) =>
          call.ret = <<None, None>>

(***************************************************************************)
(* C5.  Every key of merge_identical_levels(calculate_levels(series)) is   *)
(* one of the ten level names, every value is the High or the Low of a bar *)
(* of the series, and no key is mapped to None or to zero.                 *)
(***************************************************************************)
Vocabulary ==
    {"PDH", "PDL", "PM_High", "PM_Low", "ORB_5_High", "ORB_5_Low",
     "ORB_15_High", "ORB_15_Low", "ORB_5/15_High", "ORB_5/15_Low"}

BarValues(d) == {d[i].High : i \in DOMAIN d} \cup {d[i].Low : i \in DOMAIN d}

C5_LevelSetVocabulary ==
    call.fn \in {"calculate_levels", "merge_identical_levels"} =>
        LET L == heap[call.ret[1]]
        IN /\ DOMAIN L \subseteq Vocabulary
           /\ \A k \in DOMAIN L :
                 /\ L[k] # None
                 /\ L[k] # 0
                 /\ L[k] \in BarValues(df)

\* a merged set with a combined name, from a series without any previous
\* trading day: PDH and PDL are omitted
C5_Witness ==
    /\ call.fn = "merge_identical_levels"
    /\ "ORB_5/15_High" \in DOMAIN heap[call.ret[1]]
    /\ "PM_High" \in DOMAIN heap[call.ret[1]]
    /\ "PDH" \notin DOMAIN heap[call.ret[1]]
    /\ Len(df) = MaxBars

(***************************************************************************)
(* C6.  merge_identical_levels, separately for High and for Low: when      *)
(* ORB_5_x and ORB_15_x are both present and equal, the result holds       *)
(* ORB_5/15_x with that price and neither ORB_5_x nor ORB_15_x; otherwise  *)
(* ORB_5_x and ORB_15_x are as in the input.  Equal highs 101.50 with lows *)
(* 100.00 and 100.25 give {ORB_5/15_High: 101.50, ORB_5_Low: 100.00,       *)
(* ORB_15_Low: 100.25} (prices in hundredths).                             *)
(***************************************************************************)
SameKey(L, R, k) ==
    /\ k \in DOMAIN R <=> k \in DOMAIN L
    /\ k \in DOMAIN L => R[k] = L[k]

MergedSide(L, R, k5, k15, kBoth) ==
    IF k5 \in DOMAIN L /\ k15 \in DOMAIN L /\ L[k5] = L[k15]
    THEN /\ kBoth \in DOMAIN R /\ R[kBoth] = L[k5]
         /\ k5 \notin DOMAIN R
         /\ k15 \notin DOMAIN R
    ELSE SameKey(L, R, k5) /\ SameKey(L, R, k15)

ExampleLevels ==
    DictSet(DictSet(DictSet(DictSet(EmptyDict, "ORB_5_High", 10150),
        "ORB_15_High", 10150), "ORB_5_Low", 10000), "ORB_15_Low", 10025)

ExampleMerged ==
    DictSet(DictSet(DictSet(EmptyDict, "ORB_5/15_High", 10150),
        "ORB_5_Low", 10000), "ORB_15_Low", 10025)

C6_MergeIdentical ==
    call.fn = "merge_identical_levels" =>
        LET L == heap[call.arg[1]]
            R == heap[call.ret[1]]
        IN /\ MergedSide(L, R, "ORB_5_High", "ORB_15_High", "ORB_5/15_High")
           /\ MergedSide(L, R, "ORB_5_Low", "ORB_15_Low", "ORB_5/15_Low")
           /\ merge_identical_levels(<<ExampleLevels>>, 1).heap[2] = ExampleMerged

\* the highs are equal and merged, the lows differ and stay apart
C6_Witness ==
    /\ call.fn = "merge_identical_levels"
    /\ call.arg[1] = 1
    /\ {"ORB_5_High", "ORB_15_High", "ORB_5_Low", "ORB_15_Low"} \subseteq DOMAIN heap[1]
    /\ heap[1]["ORB_5_High"] = heap[1]["ORB_15_High"]
    /\ heap[1]["ORB_5_Low"] # heap[1]["ORB_15_Low"]
    /\ DOMAIN heap[call.ret[1]] = {"ORB_5/15_High", "ORB_5_Low", "ORB_15_Low"}

(***************************************************************************)
(* C7.  Merge idempotence: merging the result of a merge gives that result *)
(* again, for any LevelSet, also one that already holds combined names or  *)
(* only one side of a pair.                                                *)
(***************************************************************************)
C7_MergeIdempotent ==
    (call.fn = "merge_identical_levels" /\ call.arg[1] >= 2) =>
        heap[call.ret[1]] = heap[call.arg[1]]

\* merge applied to the result of a merge that did combine a pair, the
\* input holding a combined name beforehand and one side of the other pair
C7_Witness ==
    /\ call.fn = "merge_identical_levels"
    /\ call.arg[1] = 2
    /\ heap[2] # heap[1]
    /\ "ORB_5/15_Low" \in DOMAIN heap[1]
    /\ "ORB_5_Low" \in DOMAIN heap[1]
    /\ "ORB_15_Low" \notin DOMAIN heap[1]
    /\ "ORB_5/15_High" \in DOMAIN heap[call.ret[1]]

(***************************************************************************)
(* C8.  merge_identical_levels is pure and order independent: a call       *)
(* leaves every LevelSet that existed before it, its argument included,    *)
(* with the same keys and values, and what it returns is also what         *)
(* processing the Low pair before the High pair gives.                     *)
(***************************************************************************)
C8_MergeStep ==
    call'.fn = "merge_identical_levels" =>
        /\ \A r \in DOMAIN heap : heap'[r] = heap[r]
        /\ call'.ret[1] \notin DOMAIN heap
        /\ heap'[call'.ret[1]] = MergeHigh(MergeLow(heap[call'.arg[1]]))

C8_MergePure == [][C8_MergeStep]_vars

\* a call that combined both pairs: the result differs from the argument,
\* which is still there with all four keys
C8_Witness ==
    /\ call.fn = "merge_identical_levels"
    /\ {"ORB_5/15_High", "ORB_5/15_Low"} \subseteq DOMAIN heap[call.ret[1]]
    /\ {"ORB_5_High", "ORB_15_High", "ORB_5_Low", "ORB_15_Low"}
          \subseteq DOMAIN heap[call.arg[1]]
    /\ call.ret[1] # call.arg[1]

(***************************************************************************)
(* C9.  RSI warm-up: for every close series and period p the first p       *)
(* entries of calculate_rsi's result (rows 0 .. p-1) are missing.          *)
(* The code turns the undefined delta of row 0 into a gain and a loss of   *)
(* 0, so the rolling means exist from row p-1 and row p-1 can be defined.  *)
(***************************************************************************)
C9_RsiWarmup ==
    call.fn = "calculate_rsi" =>
        \A i \in DOMAIN call.ret : i <= call.arg[1] => call.ret[i] = NaN

(***************************************************************************)
(* C10.  RSI zero-loss policy: at a row past the warm-up whose trailing    *)
(* window has no falling close and at least one rising close (average loss *)
(* 0, average gain > 0) the RSI is exactly 100, so a strictly increasing   *)
(* series gives 100 at every row past the warm-up; where the closes of the *)
(* window are flat (both averages 0) the RSI is missing.                   *)
(***************************************************************************)
\* the rows whose deltas make up the trailing window of row i (row 1 is the
\* first row; past the warm-up means i > period)
DeltaRows(i, period) == (i - period + 1) .. i

NoLossIn(c, i, period) == \A j \in DeltaRows(i, period) : c[j] >= c[j - 1]
SomeGainIn(c, i, period) == \E j \in DeltaRows(i, period) : c[j] > c[j - 1]
FlatIn(c, i, period) == \A j \in DeltaRows(i, period) : c[j] = c[j - 1]

C10_RsiZeroLoss ==
    call.fn = "calculate_rsi" =>
        \A i \in DOMAIN call.ret :
            i > call.arg[1] =>
                /\ (NoLossIn(closes, i, call.arg[1]) /\ SomeGainIn(closes, i, call.arg[1]))
                      => call.ret[i] = Num(100, 1)
                /\ FlatIn(closes, i, call.arg[1]) => call.ret[i] = NaN

\* one result with both cases past the warm-up: a flat window (missing) and
\* a window of rises only (exactly 100), the period being at least 2
C10_Witness ==
    /\ call.fn = "calculate_rsi"
    /\ call.arg[1] >= 2
    /\ \E i \in DOMAIN call.ret :
          /\ i > call.arg[1]
          /\ FlatIn(closes, i, call.arg[1])
          /\ call.ret[i] = NaN
    /\ \E i \in DOMAIN call.ret :
          /\ i > call.arg[1]
          /\ \A j \in DeltaRows(i, call.arg[1]) : closes[j] > closes[j - 1]
          /\ call.ret[i] = Num(100, 1)

(***************************************************************************)
(* C11.  RSI range: for every close series and every period >= 1, each     *)
(* entry of calculate_rsi's result is either missing or a number v with    *)
(* 0 <= v <= 100.                                                          *)
(***************************************************************************)
InRange(x, lo, hi) == IsNum(x) /\ lo * x.d <= x.n /\ x.n <= hi * x.d

C11_RsiRange ==
    (call.fn = "calculate_rsi" /\ call.arg[1] >= 1) =>
        \A i \in DOMAIN call.ret :
            call.ret[i] = NaN \/ InRange(call.ret[i], 0, 100)

\* a result holding both ends of the range and a value strictly inside it
C11_Witness ==
    /\ call.fn = "calculate_rsi"
    /\ call.arg[1] >= 1
    /\ \E i \in DOMAIN call.ret : call.ret[i] = Num(0, 1)
    /\ \E i \in DOMAIN call.ret : call.ret[i] = Num(100, 1)
    /\ \E i \in DOMAIN call.ret :
          /\ InRange(call.ret[i], 0, 100)
          /\ call.ret[i].n # 0
          /\ call.ret[i].n # 100 * call.ret[i].d

(***************************************************************************)
(* C12.  VWAP: entry i of calculate_vwap's result is the sum over k <= i   *)
(* of ((High+Low+Close)/3 * Volume) divided by the sum over k <= i of      *)
(* Volume.  It has no warm-up: it is missing exactly at the rows where the *)
(* cumulative volume is 0 and defined from the first row with a positive   *)
(* cumulative volume on.  One bar with High 10, Low 8, Close 9 and volume  *)
(* 100 gives 9.                                                            *)
(***************************************************************************)
\* the volume traded in rows 1 .. i
RECURSIVE VolumeUpTo(_, _)
VolumeUpTo(d, i) == IF i = 0 THEN 0 ELSE d[i].Volume + VolumeUpTo(d, i - 1)

\* three times the price-volume traded in rows 1 .. i
RECURSIVE PriceSumVolumeUpTo(_, _)
PriceSumVolumeUpTo(d, i) ==
    IF i = 0 THEN 0
    ELSE (d[i].High + d[i].Low + d[i].Close) * d[i].Volume
             + PriceSumVolumeUpTo(d, i - 1)

ExampleRow == [High |-> 10, Low |-> 8, Close |-> 9, Volume |-> 100]

C12_Vwap ==
    /\ calculate_vwap(<<ExampleRow>>) = <<Num(9, 1)>>
    /\ call.fn = "calculate_vwap" =>
          /\ Len(call.ret) = Len(ohlcv)
          /\ \A i \in DOMAIN ohlcv :
                IF VolumeUpTo(ohlcv, i) = 0
                THEN call.ret[i] = NaN
                ELSE call.ret[i] = Num(PriceSumVolumeUpTo(ohlcv, i),
                                       3 * VolumeUpTo(ohlcv, i))

\* a frame that opens with a zero-volume row and trades in the next one: the
\* first entry is missing, the second is defined
C12_Witness ==
    /\ call.fn = "calculate_vwap"
    /\ Len(ohlcv) >= 2
    /\ ohlcv[1].Volume = 0
    /\ ohlcv[2].Volume > 0
    /\ call.ret[1] = NaN
    /\ IsNum(call.ret[2])

(***************************************************************************)
(* C13.  MACD seed: for every non-empty close series the MACD line, the    *)
(* signal line and the histogram are all 0 at the first row, and none of   *)
(* the three has a missing entry at any row.                               *)
(***************************************************************************)
C13_MacdSeed ==
    (call.fn = "calculate_macd" /\ closes # <<>>) =>
        \A k \in 1 .. 3 :
            /\ Len(call.ret[k]) = Len(closes)
            /\ call.ret[k][1] = Num(0, 1)
            /\ \A i \in DOMAIN call.ret[k] : IsNum(call.ret[k][i])

\* the two averages have different periods and the closes move, so that the
\* lines leave 0 after the first row
C13_Witness ==
    /\ call.fn = "calculate_macd"
    /\ call.arg[1] < call.arg[2]
    /\ Len(closes) >= 2
    /\ \A k \in 1 .. 3 : call.ret[k][1] = Num(0, 1) /\ call.ret[k][2].n # 0

(***************************************************************************)
(* C14.  MACD definition: with ema_p[0] = x[0] and                         *)
(* ema_p[i] = a*x[i] + (1-a)*ema_p[i-1], a = 2/(p+1), the MACD line is     *)
(* ema_fast - ema_slow of the closes, the signal line is ema_signal of the *)
(* MACD line and the histogram is MACD line - signal line; for a constant  *)
(* close series all three are 0 at every row.                              *)
(***************************************************************************)
RECURSIVE Pow(_, _)
Pow(b, e) == IF e = 0 THEN 1 ELSE b * Pow(b, e - 1)

\* the recurrence unrolled over integer observations x[1] .. x[i]:
\* the numerator of ema_p[i] over the denominator (p+1)^(i-1)
RECURSIVE EmaNumerator(_, _, _, _)
EmaNumerator(x, p, i, k) ==
    IF k = 1 THEN Pow(p - 1, i - 1) * x[1]
    ELSE 2 * Pow(p - 1, i - k) * Pow(p + 1, k - 2) * x[k]
             + EmaNumerator(x, p, i, k - 1)

ExpectedEma(x, p, i) == Num(EmaNumerator(x, p, i, i), Pow(p + 1, i - 1))

\* one step of the recurrence on a series of floats
EmaStep(p, xi, before) ==
    FAdd(FMul(Num(2, p + 1), xi), FMul(Num(p - 1, p + 1), before))

C14_MacdDefinition ==
    /\ call.fn = "calculate_ema" =>
          /\ Len(call.ret) = Len(closes)
          /\ \A i \in DOMAIN closes : call.ret[i] = ExpectedEma(closes, call.arg[1], i)
    /\ call.fn = "calculate_macd" =>
          LET macd_line == call.ret[1]
              signal_line == call.ret[2]
              histogram == call.ret[3]
          IN /\ \A k \in 1 .. 3 : Len(call.ret[k]) = Len(closes)
             /\ \A i \in DOMAIN closes :
                   /\ macd_line[i] = FSub(ExpectedEma(closes, call.arg[1], i),
                                          ExpectedEma(closes, call.arg[2], i))
                   /\ signal_line[i] =
                          IF i = 1 THEN macd_line[1]
                          ELSE EmaStep(call.arg[3], macd_line[i], signal_line[i - 1])
                   /\ histogram[i] = FSub(macd_line[i], signal_line[i])
             /\ (\A i \in DOMAIN closes : closes[i] = closes[1]) =>
                   \A k \in 1 .. 3 : \A i \in DOMAIN closes : call.ret[k][i] = Num(0, 1)

\* three distinct periods on closes that move: the three lines are away from
\* 0 and from each other at the third row
C14_Witness ==
    /\ call.fn = "calculate_macd"
    /\ call.arg[1] < call.arg[2]
    /\ call.arg[3] > 1
    /\ Len(closes) >= 3
    /\ call.ret[1][3].n # 0
    /\ call.ret[2][3].n # 0
    /\ call.ret[3][3].n # 0
    /\ call.ret[1][3] # call.ret[2][3]

(***************************************************************************)
(* C15.  RSI signal: get_indicator_signals classifies the latest value of  *)
(* the RSI series only, with strict inequalities: above 70 "Overbought",   *)
(* below 30 "Oversold", anything else (exactly 70 and exactly 30 included) *)
(* "Neutral"; exactly one of the three is emitted when that value is       *)
(* defined.                                                                *)
(***************************************************************************)
\* the map get_indicator_signals was given and the map it returned
GivenIndicators == heap[call.arg[1]]
Signals == heap[call.ret[1]]

Defined(indicators, key) ==
    /\ key \in DOMAIN indicators
    /\ Len(indicators[key]) > 0
    /\ indicators[key][Len(indicators[key])].t # "nan"

LatestOf(indicators, key) == indicators[key][Len(indicators[key])]

C15_RsiSignal ==
    (call.fn = "get_indicator_signals" /\ Defined(GivenIndicators, "rsi")) =>
        LET v == LatestOf(GivenIndicators, "rsi")
        IN /\ "rsi_signal" \in DOMAIN Signals
           /\ Signals["rsi_signal"] \in {"Overbought", "Oversold", "Neutral"}
           /\ Signals["rsi_signal"] = "Overbought" <=> v.n > 70 * v.d
           /\ Signals["rsi_signal"] = "Oversold" <=> v.n < 30 * v.d
           /\ (v = Num(70, 1) \/ v = Num(30, 1)) => Signals["rsi_signal"] = "Neutral"

\* the latest value is exactly 70 and the value before it is above 70
C15_Witness ==
    /\ call.fn = "get_indicator_signals"
    /\ Defined(GivenIndicators, "rsi")
    /\ Len(GivenIndicators["rsi"]) = 2
    /\ GivenIndicators["rsi"][1] = Num(71, 1)
    /\ GivenIndicators["rsi"][2] = Num(70, 1)
    /\ Signals["rsi_signal"] = "Neutral"

(***************************************************************************)
(* C16.  MACD signal: get_indicator_signals classifies the latest value of *)
(* the histogram series only: above 0 "Bullish", below 0 "Bearish",        *)
(* exactly 0 "Neutral".  So the indicators of a one-bar frame or of a      *)
(* frame with a constant close classify as "Neutral".                      *)
(***************************************************************************)
ConstantClose(d) == \A i \in DOMAIN d : d[i].Close = d[1].Close

C16_MacdSignal ==
    call.fn = "get_indicator_signals" =>
        /\ Defined(GivenIndicators, "macd_histogram") =>
              LET h == LatestOf(GivenIndicators, "macd_histogram")
              IN /\ "macd_signal" \in DOMAIN Signals
                 /\ Signals["macd_signal"] \in {"Bullish", "Bearish", "Neutral"}
                 /\ Signals["macd_signal"] = "Bullish" <=> h.n > 0
                 /\ Signals["macd_signal"] = "Bearish" <=> h.n < 0
                 /\ Signals["macd_signal"] = "Neutral" <=> h.n = 0
        /\ (ohlcv # <<>> /\ ConstantClose(ohlcv)) =>
              /\ "macd_signal" \in DOMAIN Signals
              /\ Signals["macd_signal"] = "Neutral"

\* the indicators of a two-bar frame whose close does not move
C16_Witness ==
    /\ call.fn = "get_indicator_signals"
    /\ Len(ohlcv) = 2
    /\ ConstantClose(ohlcv)
    /\ GivenIndicators = calculate_all_indicators(ohlcv)
    /\ Signals["macd_signal"] = "Neutral"
    /\ Signals["macd_histogram_value"] = Num(0, 1)

(***************************************************************************)
(* C17.  Signals map: its keys are among rsi_signal, rsi_value,            *)
(* macd_signal, macd_histogram_value and vwap_value.  rsi_signal is        *)
(* present iff rsi_value is present iff the RSI series is non-empty with a *)
(* defined latest entry; likewise macd_signal and macd_histogram_value for *)
(* the histogram series, and vwap_value for the VWAP series.  Nothing is   *)
(* emitted for a series whose latest value is missing, no "Unknown".       *)
(***************************************************************************)
SignalKeys == {"rsi_signal", "rsi_value", "macd_signal", "macd_histogram_value",
               "vwap_value"}

C17_SignalsMap ==
    call.fn = "get_indicator_signals" =>
        /\ DOMAIN Signals \subseteq SignalKeys
        /\ "rsi_signal" \in DOMAIN Signals <=> Defined(GivenIndicators, "rsi")
        /\ "rsi_value" \in DOMAIN Signals <=> Defined(GivenIndicators, "rsi")
        /\ "macd_signal" \in DOMAIN Signals
              <=> Defined(GivenIndicators, "macd_histogram")
        /\ "macd_histogram_value" \in DOMAIN Signals
              <=> Defined(GivenIndicators, "macd_histogram")
        /\ "vwap_value" \in DOMAIN Signals <=> Defined(GivenIndicators, "vwap")
        /\ \A key \in DOMAIN Signals \cap {"rsi_signal", "macd_signal"} :
              Signals[key] # "Unknown"
        /\ \A key \in DOMAIN Signals \ {"rsi_signal", "macd_signal"} :
              Signals[key].t # "nan"

\* all three series are given: the RSI ends on a value, the histogram ends on
\* a missing value after a defined one, the VWAP series is empty
C17_Witness ==
    /\ call.fn = "get_indicator_signals"
    /\ DOMAIN GivenIndicators = {"rsi", "macd_histogram", "vwap"}
    /\ Defined(GivenIndicators, "rsi")
    /\ Len(GivenIndicators["macd_histogram"]) = 2
    /\ GivenIndicators["macd_histogram"][1] # NaN
    /\ GivenIndicators["macd_histogram"][2] = NaN
    /\ GivenIndicators["vwap"] = <<>>
    /\ DOMAIN Signals = {"rsi_signal", "rsi_value"}

(***************************************************************************)
(* C18.  calculate_all_indicators on a frame of n bars returns a map with  *)
(* exactly the keys rsi, vwap, macd, macd_signal and macd_histogram, and   *)
(* each of the five series has exactly n entries, one per bar.             *)
(***************************************************************************)
IndicatorKeys == {"rsi", "vwap", "macd", "macd_signal", "macd_histogram"}

C18_AllIndicators ==
    call.fn = "calculate_all_indicators" =>
        /\ DOMAIN heap[call.ret[1]] = IndicatorKeys
        /\ \A key \in IndicatorKeys :
              DOMAIN heap[call.ret[1]][key] = DOMAIN ohlcv

\* a frame of two bars: the RSI is still missing, the other four series are
\* defined at the second bar
C18_Witness ==
    /\ call.fn = "calculate_all_indicators"
    /\ Len(ohlcv) = 2
    /\ heap[call.ret[1]]["rsi"] = <<NaN, NaN>>
    /\ \A key \in IndicatorKeys \ {"rsi"} : IsNum(heap[call.ret[1]][key][2])

(***************************************************************************)
(* C19.  Malformed input fails fast: handed a frame whose bars are not in  *)
(* ascending timestamp order, calculate_levels, find_previous_trading_day  *)
(* and the window extractors raise an error instead of returning values.   *)
(* The code never looks at the order of the index, so every call on an     *)
(* unordered frame returns as if the frame were ordered.                   *)
(***************************************************************************)
Ascending(d) == \A i \in 2 .. Len(d) : Later(d[i], SubSeq(d, 1, i - 1))

\* the last call ended in an exception
Raised(c) == "raised" \in DOMAIN c /\ c.raised

C19_MalformedFailsFast ==
    (call.fn \in {"calculate_levels", "find_previous_trading_day",
                  "calculate_premarket_levels", "calculate_orb_levels"}
        /\ ~Ascending(df))
    => Raised(call)

(***************************************************************************)
(* C20.  A period <= 0 fails fast: calculate_rsi called with period <= 0,  *)
(* and calculate_macd or calculate_ema called with any period <= 0, raise  *)
(* an error rather than return a series.                                   *)
(* The code has no check of its own: on an empty frame it returns before   *)
(* the period is read, and a window of 0 gives an all-missing RSI.         *)
(***************************************************************************)
C20_PeriodFailsFast ==
    (call.fn \in {"calculate_rsi", "calculate_macd", "calculate_ema"}
        /\ \E k \in DOMAIN call.arg : call.arg[k] <= 0)
    => call.raised

(***************************************************************************)
(* C21.  No operation raises on absent data: calculate_levels on a frame   *)
(* with no bars returns an empty map; calculate_rsi, calculate_vwap and    *)
(* calculate_macd on an empty frame return empty series; calculate_rsi on  *)
(* a frame shorter than the warm-up (fewer rows than the period) returns   *)
(* an all-missing series; get_indicator_signals on an empty map or on      *)
(* empty or all-missing series returns an empty map.                       *)
(***************************************************************************)
AllMissing(series) == \A i \in DOMAIN series : series[i] = NaN

SameInput(a, b) ==
    IF a.fn # b.fn THEN FALSE
    ELSE IF a.arg = <<>> THEN TRUE
    ELSE heap[a.arg[1]] = heap[b.arg[1]]

Contributes(b, m, hiKey, loKey) ==
    /\ hiKey \in DOMAIN m /\ m[hiKey] >= b.High
    /\ loKey \in DOMAIN m /\ m[loKey] <= b.Low

\* no date between day and today has a regular-hours bar
NothingBetween(d, day, today) ==
    \A other \in IndexDates(d) :
        (day < other /\ other < today) =>
            BarsIn(d, other, MARKET_OPEN, MARKET_CLOSE) = {}

C23_InclusiveBounds ==
    (call.fn = "calculate_levels" /\ df # <<>>) =>
        LET L == heap[call.ret[1]]
            today == LatestDate(df)
        IN \A i \in DOMAIN df :
              /\ (df[i].date = today /\ df[i].time = MARKET_OPEN) =>
                    /\ Contributes(df[i], L, "PM_High", "PM_Low")
                    /\ Contributes(df[i], L, "ORB_5_High", "ORB_5_Low")
                    /\ Contributes(df[i], L, "ORB_15_High", "ORB_15_Low")
              /\ (df[i].date = today /\ df[i].time = ORB_5_END) =>
                    Contributes(df[i], L, "ORB_5_High", "ORB_5_Low")
              /\ (df[i].date = today /\ df[i].time = ORB_15_END) =>
                    Contributes(df[i], L, "ORB_15_High", "ORB_15_Low")
              /\ (df[i].date < today /\ df[i].time = MARKET_CLOSE
                    /\ NothingBetween(df, df[i].date, today)) =>
                    Contributes(df[i], L, "PDH", "PDL")

\* one bar on each bound: the close of the previous day, the end of the
\* 5-minute range and the end of the 15-minute range of today
C23_Witness ==
    /\ call.fn = "calculate_levels"
    /\ Len(df) = 3
    /\ df[1].date < df[2].date /\ df[1].time = MARKET_CLOSE
    /\ df[2].date = df[3].date
    /\ df[2].time = ORB_5_END /\ df[2].High = 2
    /\ df[3].time = ORB_15_END /\ df[3].High = 3
    /\ heap[call.ret[1]]["PDH"] = df[1].High
    /\ heap[call.ret[1]]["ORB_5_High"] = 2
    /\ heap[call.ret[1]]["ORB_15_High"] = 3

(***************************************************************************)
(* C24.  Level pairs come together: in calculate_levels' result PDH is     *)
(* present iff PDL is, PM_High iff PM_Low, ORB_5_High iff ORB_5_Low and    *)
(* ORB_15_High iff ORB_15_Low; after merge_identical_levels some High form *)
(* of the opening range (ORB_5_High, ORB_15_High or ORB_5/15_High) is      *)
(* present iff some Low form is.                                           *)
(***************************************************************************)
LevelPairs ==
    {<<"PDH", "PDL">>, <<"PM_High", "PM_Low">>, <<"ORB_5_High", "ORB_5_Low">>,
     <<"ORB_15_High", "ORB_15_Low">>}

HighForms == {"ORB_5_High", "ORB_15_High", "ORB_5/15_High"}
LowForms == {"ORB_5_Low", "ORB_15_Low", "ORB_5/15_Low"}

C24_PairsTogether ==
    /\ call.fn = "calculate_levels" =>
          \A pair \in LevelPairs :
              pair[1] \in DOMAIN heap[call.ret[1]]
                  <=> pair[2] \in DOMAIN heap[call.ret[1]]
    /\ call.fn = "merge_identical_levels" =>
          (HighForms \cap DOMAIN heap[call.ret[1]] # {}
              <=> LowForms \cap DOMAIN heap[call.ret[1]] # {})

\* a merged set whose highs are combined and whose lows are not
C24_Witness ==
    /\ call.fn = "merge_identical_levels"
    /\ HighForms \cap DOMAIN heap[call.ret[1]] = {"ORB_5/15_High"}
    /\ LowForms \cap DOMAIN heap[call.ret[1]] = {"ORB_5_Low", "ORB_15_Low"}

(***************************************************************************)
(* C25.  Opening-range containment: in calculate_levels' result, if the    *)
(* ORB_5 levels are present then the ORB_15 levels are present,            *)
(* ORB_15_High >= ORB_5_High and ORB_15_Low <= ORB_5_Low.  (The ORB_15     *)
(* levels may be present without the ORB_5 levels.)                        *)
(***************************************************************************)
C25_OrbContainment ==
    call.fn = "calculate_levels" =>
        LET L == heap[call.ret[1]]
        IN "ORB_5_High" \in DOMAIN L =>
              /\ {"ORB_5_Low", "ORB_15_High", "ORB_15_Low"} \subseteq DOMAIN L
              /\ L["ORB_15_High"] >= L["ORB_5_High"]
              /\ L["ORB_15_Low"] <= L["ORB_5_Low"]

\* the 15-minute range reaches above the 5-minute range
C25_Witness ==
    /\ call.fn = "calculate_levels"
    /\ "ORB_5_High" \in DOMAIN heap[call.ret[1]]
    /\ heap[call.ret[1]]["ORB_15_High"] > heap[call.ret[1]]["ORB_5_High"]

\* the 15-minute range without the 5-minute range
C25_Orb15Alone ==
    /\ call.fn = "calculate_levels"
    /\ "ORB_15_High" \in DOMAIN heap[call.ret[1]]
    /\ "ORB_5_High" \notin DOMAIN heap[call.ret[1]]

(***************************************************************************)
(* C26.  High/Low ordering: every bar having High >= Low, in               *)
(* calculate_levels' result PDH >= PDL, PM_High >= PM_Low,                 *)
(* ORB_5_High >= ORB_5_Low and ORB_15_High >= ORB_15_Low whenever the pair *)
(* is present, and after merge_identical_levels the same holds for the     *)
(* High and the Low of each range, combined or not.                        *)
(***************************************************************************)
BarsOrdered(d) == \A i \in DOMAIN d : d[i].High >= d[i].Low

\* the level of a range in a merged set: under its own name or the combined one
FormOf(m, own, combined) ==
    IF own \in DOMAIN m THEN m[own] ELSE DictGet(m, combined)

Ordered(high, low) == (high # None /\ low # None) => high >= low

C26_HighAboveLow ==
    (call.fn \in {"calculate_levels", "merge_identical_levels"} /\ BarsOrdered(df)) =>
        LET L == heap[call.ret[1]]
        IN /\ \A pair \in LevelPairs :
                 Ordered(DictGet(L, pair[1]), DictGet(L, pair[2]))
           /\ Ordered(FormOf(L, "ORB_5_High", "ORB_5/15_High"),
                      FormOf(L, "ORB_5_Low", "ORB_5/15_Low"))
           /\ Ordered(FormOf(L, "ORB_15_High", "ORB_5/15_High"),
                      FormOf(L, "ORB_15_Low", "ORB_5/15_Low"))

\* a merged set with both levels combined, a previous day and a pre-market
C26_Witness ==
    /\ call.fn = "merge_identical_levels"
    /\ {"ORB_5/15_High", "ORB_5/15_Low", "PDH", "PM_High"}
          \subseteq DOMAIN heap[call.ret[1]]
    /\ heap[call.ret[1]]["ORB_5/15_High"] > heap[call.ret[1]]["ORB_5/15_Low"]

(***************************************************************************)
(* C27.  merge_identical_levels leaves every key other than ORB_5_High,    *)
(* ORB_15_High, ORB_5_Low, ORB_15_Low, ORB_5/15_High and ORB_5/15_Low      *)
(* present with its value unchanged, and never changes a price: every      *)
(* value of the result is a value of the input.                            *)
(***************************************************************************)
C27_MergeFrame ==
    call.fn = "merge_identical_levels" =>
        LET given == heap[call.arg[1]]
            merged == heap[call.ret[1]]
        IN /\ \A k \in DOMAIN given \ (HighForms \cup LowForms) :
                 k \in DOMAIN merged /\ merged[k] = given[k]
           /\ \A k \in DOMAIN merged : \E j \in DOMAIN given : merged[k] = given[j]

\* a set with a previous-day high whose two range highs are combined
C27_Witness ==
    /\ call.fn = "merge_identical_levels"
    /\ "PDH" \in DOMAIN heap[call.arg[1]]
    /\ "ORB_5/15_High" \notin DOMAIN heap[call.arg[1]]
    /\ "ORB_5/15_High" \in DOMAIN heap[call.ret[1]]
    /\ heap[call.ret[1]]["PDH"] # heap[call.ret[1]]["ORB_5/15_High"]

(***************************************************************************)
(* C28.  VWAP bounds: every bar having Low <= Close <= High and a volume   *)
(* >= 0, every defined entry i of calculate_vwap's result lies between the *)
(* least Low and the greatest High of the bars 0 .. i that have a positive *)
(* volume.                                                                 *)
(***************************************************************************)
WellFormedRows(d) ==
    \A i \in DOMAIN d :
        d[i].Low <= d[i].Close /\ d[i].Close <= d[i].High /\ d[i].Volume >= 0

Traded(d, i) == {k \in 1 .. i : d[k].Volume > 0}

C29_DashboardLevels ==
    call.fn = "dashboard.calculate_levels" =>
        heap[call.ret[1]] = calculate_levels(df)

\* three days of bars: the previous trading day is found behind today, and
\* today has a pre-market bar and its opening bar
C29_Witness ==
    /\ call.fn = "dashboard.calculate_levels"
    /\ Len(df) = MaxBars
    /\ {"PDH", "PDL", "PM_High", "PM_Low", "ORB_5_High", "ORB_5_Low",
        "ORB_15_High", "ORB_15_Low"} = DOMAIN heap[call.ret[1]]
    /\ heap[call.ret[1]]["PDH"] # heap[call.ret[1]]["ORB_5_High"]

(***************************************************************************)
(* C30: the level merging inside dashboard.plot_chart agrees with the      *)
(* core. For every LevelSet L and non-empty chart data, the level map      *)
(* plot_chart returns equals merge_identical_levels(L), it is a dict of    *)
(* its own, and the call leaves L (and every other dict) as it was.        *)
(***************************************************************************)
C30_PlotStep ==
    (call'.fn = "plot_chart" /\ df # <<>>) =>
        LET L == call'.arg[1]
            core == merge_identical_levels(heap, L)
        IN /\ heap'[call'.ret[1]] = core.heap[core.ret]
           /\ call'.ret[1] \notin DOMAIN heap
           /\ \A o \in DOMAIN heap : heap'[o] = heap[o]

C30_PlotChartMerge == [][C30_PlotStep]_vars

\* a LevelSet with an identical pair of highs and a level outside the
\* opening range, plotted over a bar: the pair is combined in the map
\* returned and still apart in L
C30_Witness ==
    /\ call.fn = "plot_chart"
    /\ df # <<>>
    /\ LET L == heap[call.arg[1]]
           R == heap[call.ret[1]]
       IN /\ {"ORB_5_High", "ORB_15_High", "PDH"} \subseteq DOMAIN L
          /\ L["ORB_5_High"] = L["ORB_15_High"]
          /\ "ORB_5/15_High" \in DOMAIN R
          /\ "ORB_5_High" \notin DOMAIN R
          /\ "PDH" \in DOMAIN R

====
